---- MODULE Spec2Model ----
(***************************************************************************)
(* Model of pkg/operator/apiserver/controller/apiservice:                  *)
(* APIServiceController.sync and the three routines it calls,              *)
(* syncDisabledAPIServices, syncEnabledAPIServices, updateOperatorStatus.  *)
(*                                                                         *)
(* Go strings are sequences of byte values, so that fmt formatting,        *)
(* strings.Join and sort.StringSlice are computed and not assumed.         *)
(***************************************************************************)
EXTENDS Integers, Sequences, FiniteSets, TLC

(***************************************************************************)
(* Bounds of the model.                                                    *)
(***************************************************************************)
\* most registrations the source hands out in one cycle, enabled plus disabled
MaxRegistrations == 2

(***************************************************************************)
(* Strings.                                                                *)
(***************************************************************************)
\* "svcA", "svcB": the names of the registrations the source hands out
svcA == <<115, 118, 99, 65>>
svcB == <<115, 118, 99, 66>>
Names == {svcA, svcB}

\* condition messages the aggregator may report: "x", "y", "50%"
MsgX == <<120>>
MsgY == <<121>>
MsgPct == <<53, 48, 37>>

\* "apiservices.apiregistration.k8s.io/" and ": not available: "
AvailPrefix == <<97, 112, 105, 115, 101, 114, 118, 105, 99, 101, 115, 46, 97, 112, 105, 114, 101, 103, 105, 115, 116, 114, 97, 116, 105, 111, 110, 46, 107, 56, 115, 46, 105, 111, 47>>
AvailMid == <<58, 32, 110, 111, 116, 32, 97, 118, 97, 105, 108, 97, 98, 108, 101, 58, 32>>

\* "failed to delete disabled APIs: "
ShutDisabledFmt == <<102, 97, 105, 108, 101, 100, 32, 116, 111, 32, 100, 101, 108, 101, 116, 101, 32, 100, 105, 115, 97, 98, 108, 101, 100, 32, 65, 80, 73, 115, 58, 32>>
\* "failed to check precondition for enabled APIs: "
ShutPreconditionFmt == <<102, 97, 105, 108, 101, 100, 32, 116, 111, 32, 99, 104, 101, 99, 107, 32, 112, 114, 101, 99, 111, 110, 100, 105, 116, 105, 111, 110, 32, 102, 111, 114, 32, 101, 110, 97, 98, 108, 101, 100, 32, 65, 80, 73, 115, 58, 32>>
\* "failed to reconcile enabled APIs: "
ShutEnabledFmt == <<102, 97, 105, 108, 101, 100, 32, 116, 111, 32, 114, 101, 99, 111, 110, 99, 105, 108, 101, 32, 101, 110, 97, 98, 108, 101, 100, 32, 65, 80, 73, 115, 58, 32>>
\* "the operator is shutting down, skipping updating conditions, err = "
ShutdownFmt == <<116, 104, 101, 32, 111, 112, 101, 114, 97, 116, 111, 114, 32, 105, 115, 32, 115, 104, 117, 116, 116, 105, 110, 103, 32, 100, 111, 119, 110, 44, 32, 115, 107, 105, 112, 112, 105, 110, 103, 32, 117, 112, 100, 97, 116, 105, 110, 103, 32, 99, 111, 110, 100, 105, 116, 105, 111, 110, 115, 44, 32, 101, 114, 114, 32, 61, 32>>
\* "PreconditionNotReady", the message of the not-ready condition
PreconditionNotReadyMsg == <<80, 114, 101, 99, 111, 110, 100, 105, 116, 105, 111, 110, 78, 111, 116, 82, 101, 97, 100, 121>>

\* texts of the errors the collaborators return
\* "delete failed: ", "lister failed: ", "apply failed: "
DeleteErrText == <<100, 101, 108, 101, 116, 101, 32, 102, 97, 105, 108, 101, 100, 58, 32>>
ListerErrText == <<108, 105, 115, 116, 101, 114, 32, 102, 97, 105, 108, 101, 100, 58, 32>>
ApplyErrText == <<97, 112, 112, 108, 121, 32, 102, 97, 105, 108, 101, 100, 58, 32>>
\* "endpoints unreadable", "status update failed"
PreconditionErrText == <<101, 110, 100, 112, 111, 105, 110, 116, 115, 32, 117, 110, 114, 101, 97, 100, 97, 98, 108, 101>>
UpdateErrText == <<115, 116, 97, 116, 117, 115, 32, 117, 112, 100, 97, 116, 101, 32, 102, 97, 105, 108, 101, 100>>
\* "missing from discovery"
DiscoveryText == <<109, 105, 115, 115, 105, 110, 103, 32, 102, 114, 111, 109, 32, 100, 105, 115, 99, 111, 118, 101, 114, 121>>
\* "operator state unreadable", "registration source failed"
OperatorStateErrText == <<111, 112, 101, 114, 97, 116, 111, 114, 32, 115, 116, 97, 116, 101, 32, 117, 110, 114, 101, 97, 100, 97, 98, 108, 101>>
SourceErrText == <<114, 101, 103, 105, 115, 116, 114, 97, 116, 105, 111, 110, 32, 115, 111, 117, 114, 99, 101, 32, 102, 97, 105, 108, 101, 100>>

\* s is a prefix of t
IsPrefix(s, t) ==
    /\ Len(s) <= Len(t)
    /\ \A i \in 1..Len(s) : s[i] = t[i]

\* Go's < on strings: byte-wise lexicographic order
StrLess(s, t) ==
    \/ Len(s) < Len(t) /\ IsPrefix(s, t)
    \/ \E i \in 1..Len(s) :
          /\ i <= Len(t)
          /\ \A j \in 1..(i - 1) : s[j] = t[j]
          /\ s[i] < t[i]

RECURSIVE Join(_, _)
\* strings.Join(msgs, sep)
Join(msgs, sep) ==
    IF msgs = <<>> THEN <<>>
    ELSE IF Len(msgs) = 1 THEN msgs[1]
    ELSE msgs[1] \o sep \o Join(Tail(msgs), sep)

RECURSIVE InsertSorted(_, _)
InsertSorted(m, sorted) ==
    IF sorted = <<>> THEN <<m>>
    ELSE IF StrLess(sorted[1], m) THEN <<sorted[1]>> \o InsertSorted(m, Tail(sorted))
    ELSE <<m>> \o sorted

RECURSIVE SortStrings(_)
\* sort.Sort(sort.StringSlice(msgs))
SortStrings(msgs) ==
    IF msgs = <<>> THEN <<>>
    ELSE InsertSorted(msgs[1], SortStrings(Tail(msgs)))

\* the number of "%" bytes that directly precede position i of format
PercentsBefore(format, i) ==
    Cardinality({ k \in 1..(i - 1) : \A j \in 1..k : format[i - j] = 37 })

\* what fmt prints for position i of a format that has no operands: a byte that
\* is not "%" prints itself, "%%" prints "%", a verb finds no operand and prints
\* "%!<verb>(MISSING)", a trailing "%" prints "%!(NOVERB)"; the byte after a
\* "%" that starts a directive was consumed by it.
\* (No flag, width or index byte follows a "%" in the strings of this model.)
FormatPiece(format, i) ==
    IF PercentsBefore(format, i) % 2 = 1 THEN <<>>
    ELSE IF format[i] # 37 THEN <<format[i]>>
    ELSE IF i = Len(format) THEN <<37, 33, 40, 78, 79, 86, 69, 82, 66, 41>>
    ELSE IF format[i + 1] = 37 THEN <<37>>
    ELSE <<37, 33, format[i + 1], 40, 77, 73, 83, 83, 73, 78, 71, 41>>

RECURSIVE FormatRange(_, _, _)
\* the output for positions lo..hi of format
FormatRange(format, lo, hi) ==
    IF lo > hi THEN <<>>
    ELSE IF lo = hi THEN FormatPiece(format, lo)
    ELSE LET mid == (lo + hi) \div 2
         IN FormatRange(format, lo, mid) \o FormatRange(format, mid + 1, hi)

\* fmt.Sprintf(format) with no operands
Sprintf0(format) == FormatRange(format, 1, Len(format))

\* fmt.Sprintf("apiservices.apiregistration.k8s.io/%v: not available: %v", name, message)
AvailableMessage(name, message) == AvailPrefix \o name \o AvailMid \o message

(***************************************************************************)
(* Errors.  nil is NIL; every other error is a record with a kind.         *)
(***************************************************************************)
NIL == [kind |-> "nil"]

\* an error of the API machinery; reason "NotFound" is what IsNotFound tests
APIError(reason, text) == [kind |-> "api", reason |-> reason, text |-> text]
\* fmt.Errorf / errors.New: an error that is only its text
TextError(text) == [kind |-> "text", text |-> text]

IsNotFound(err) == err.kind = "api" /\ err.reason = "NotFound"

RECURSIVE FilterNil(_)
FilterNil(errs) ==
    IF errs = <<>> THEN <<>>
    ELSE IF errs[1] = NIL THEN FilterNil(Tail(errs))
    ELSE <<errs[1]>> \o FilterNil(Tail(errs))

\* errors.NewAggregate: nil for an empty list, else the list without nils
NewAggregate(errs) ==
    IF FilterNil(errs) = <<>> THEN NIL
    ELSE [kind |-> "aggregate", errs |-> FilterNil(errs)]

RECURSIVE Flatten(_)
\* the leaves of an aggregate, in visiting order
Flatten(errs) ==
    IF errs = <<>> THEN <<>>
    ELSE IF errs[1].kind = "aggregate" THEN Flatten(errs[1].errs) \o Flatten(Tail(errs))
    ELSE <<errs[1]>> \o Flatten(Tail(errs))

RECURSIVE Dedup(_, _)
Dedup(msgs, seen) ==
    IF msgs = <<>> THEN <<>>
    ELSE IF msgs[1] \in seen THEN Dedup(Tail(msgs), seen)
    ELSE <<msgs[1]>> \o Dedup(Tail(msgs), seen \cup {msgs[1]})

\* err.Error(): the text of an error; an aggregate prints its distinct leaf
\* messages joined by ", " and, when more than one, wrapped in brackets
ErrorText(err) ==
    IF err.kind = "aggregate"
    THEN LET leaves == Flatten(err.errs)
             msgs == Dedup([i \in 1..Len(leaves) |-> leaves[i].text], {})
         IN IF Len(msgs) = 1 THEN msgs[1]
            ELSE <<91>> \o Join(msgs, <<44, 32>>) \o <<93>>
    ELSE err.text

\* fmt.Errorf(format + "%v", err)
Errorf(format, err) == TextError(format \o ErrorText(err))

(***************************************************************************)
(* Objects.                                                                *)
(***************************************************************************)
\* Port of a service reference; 0 is a nil *int32
NilPort == 0

\* the registrations the source knows; svcA leaves the port to the default
Registration(name) == [name |-> name, port |-> IF name = svcA THEN NilPort ELSE 443]

\* the registration as it was handed in, its nil port left nil
SetDefaults_ServiceReference_Skipped(reg) == reg

\* apiregistrationv1.SetDefaults_ServiceReference: a nil port becomes 443
SetDefaults_ServiceReference(reg) ==
    IF reg.port = NilPort THEN [reg EXCEPT !.port = 443] ELSE reg

\* a condition of an APIService status
Condition(type, status, message) == [type |-> type, status |-> status, message |-> message]

\* Status.Conditions the aggregator may have written on an APIService: none,
\* available, and not available behind a condition of another type and before
\* a second Available condition
ConditionLists ==
    { <<>>,
      <<Condition("Available", "True", <<>>)>>,
      <<Condition("Other", "False", MsgX), Condition("Available", "False", MsgY),
        Condition("Available", "True", <<>>)>> }

\* more of them, for the enabling path on its own: an unknown availability,
\* a message that ends in "%", an available condition before an unavailable one
MoreConditionLists ==
    ConditionLists \cup
    { <<Condition("Available", "Unknown", MsgX)>>,
      <<Condition("Available", "False", MsgPct)>>,
      <<Condition("Available", "True", <<>>), Condition("Available", "False", MsgX)>> }

\* what the lister keeps of an object
CacheView(obj) == [present |-> obj.present, deleting |-> obj.deleting]

\* no object of that name
Absent == [present |-> FALSE, deleting |-> FALSE, port |-> NilPort, conds |-> <<>>]

(***************************************************************************)
(* State.                                                                  *)
(***************************************************************************)
VARIABLES
    managementState,    \* operatorConfigSpec.ManagementState in the operator client
    operatorStatus,     \* the conditions held by the operator status store
    store,              \* the APIService objects of the API server, by name
    cache,              \* what apiservicelister sees of them (the informer lags)
    ctxDone,            \* ctx.Done() is closed
    hasRESTClient,      \* c.kubeClient.Discovery().RESTClient() != nil
    pc,                 \* where the sync in flight is: idle when none is
    cycleState,         \* ManagementState read by the sync in flight
    enabledApiServices, disabledApiServices,
    syncDisabledAPIServicesErr, preconditionReady, preconditionErr,
    syncEnabledAPIServicesErr,
    ret,                \* what the sync returned
    calls,              \* the calls on collaborators made by this sync, in order
    faults              \* the calls of this sync that the collaborators failed

vars == <<managementState, operatorStatus, store, cache, ctxDone, hasRESTClient, pc,
          cycleState, enabledApiServices, disabledApiServices,
          syncDisabledAPIServicesErr, preconditionReady, preconditionErr,
          syncEnabledAPIServicesErr, ret, calls, faults>>

envVars == <<managementState, store, cache, ctxDone>>
locals == <<enabledApiServices, disabledApiServices, syncDisabledAPIServicesErr,
            preconditionReady, preconditionErr, syncEnabledAPIServicesErr>>

ManagementStates == {"Managed", "Unmanaged", "Removed", "Force"}

\* a call on a collaborator: the operation, the name it is about and how it
\* ended ("ok", "NotFound", "error", and "changed" or "unchanged" for an apply)
Call(op, name, result) == [op |-> op, name |-> name, result |-> result]

\* how a call that returns err ended
ResultOf(err) == IF err = NIL THEN "ok" ELSE IF IsNotFound(err) THEN "NotFound" ELSE "error"

\* no call has failed
NoFaults == [lister |-> {}, delete |-> {}, apply |-> {}, discovery |-> {}]

\* lists of distinct registrations
RegistrationLists ==
    { <<>> } \cup { <<Registration(n)>> : n \in Names }
             \cup { <<Registration(p[1]), Registration(p[2])>> :
                        p \in { q \in Names \X Names : q[1] # q[2] } }

\* a list of one registration
ListOf(name) == <<Registration(name)>>

\* what getAPIServicesToManageFn may return without error
ManagedLists ==
    { l \in RegistrationLists \X RegistrationLists : Len(l[1]) + Len(l[2]) <= MaxRegistrations }

\* a condition of the operator status
OperatorCondition(status, reason, message) ==
    [status |-> status, reason |-> reason, message |-> message]

\* an APIService object of the API server
Object(deleting, port, conds) ==
    [present |-> TRUE, deleting |-> deleting, port |-> port, conds |-> conds]

\* the objects the API server may hold under a name when a sync starts
StoreObjects == {Absent} \cup { Object(FALSE, 443, c) : c \in ConditionLists }

\* what the lister may hold under a name: it lags behind the API server
CacheObjects == { CacheView(Absent), CacheView(Object(FALSE, 443, <<>>)) }

\* the names of a list of registrations
NamesOf(apiServices) == { apiServices[i].name : i \in 1..Len(apiServices) }

\* the calls of a set of faults that are made at all, on the names of a list
Effective(faultSets, apiServices) == { f \cap NamesOf(apiServices) : f \in faultSets }

\* the conditions an earlier process left in the operator status
PriorStatus ==
    [APIServicesDegraded |-> OperatorCondition("Unset", "", <<>>),
     APIServicesAvailable |-> OperatorCondition("Unset", "", <<>>)]

\* no sync in flight
Idle ==
    /\ pc = "idle"
    /\ cycleState = "None"
    /\ enabledApiServices = <<>>
    /\ disabledApiServices = <<>>
    /\ syncDisabledAPIServicesErr = NIL
    /\ preconditionReady = FALSE
    /\ preconditionErr = NIL
    /\ syncEnabledAPIServicesErr = NIL
    /\ ret = NIL
    /\ calls = <<>>
    /\ faults = NoFaults

\* The controller is constructed against a cluster that other actors and
\* earlier processes have left in any state.
Init ==
    /\ managementState \in ManagementStates
    /\ operatorStatus = PriorStatus
    /\ store \in [Names -> StoreObjects]
    /\ cache \in [Names -> CacheObjects]
    /\ ctxDone = FALSE
    /\ hasRESTClient \in BOOLEAN
    /\ Idle

(***************************************************************************)
(* sync: reading the management state and the lists.                       *)
(***************************************************************************)
\* The steps of the world are taken where a sync can tell them apart: a sync
\* reads the management state only when it starts, the lister only in the
\* disabling path, the store in the disabling path and in the enabling path,
\* and the context only in updateOperatorStatus.
BetweenSyncs == pc = "idle" /\ ~ctxDone

\* a sync that returns before any list is handed to a path
SyncReturns(state, result, cs) ==
    /\ pc' = "done"
    /\ cycleState' = state
    /\ ret' = result
    /\ calls' = cs
    /\ enabledApiServices' = <<>>
    /\ disabledApiServices' = <<>>
    /\ syncDisabledAPIServicesErr' = NIL
    /\ preconditionReady' = FALSE
    /\ preconditionErr' = NIL
    /\ syncEnabledAPIServicesErr' = NIL
    /\ UNCHANGED <<envVars, operatorStatus, hasRESTClient, faults>>

\* a sync that goes on to the disabling path with the lists of the source
SyncProceeds(state, lists) ==
    /\ pc' = "disabling"
    /\ cycleState' = state
    /\ calls' = <<Call("GetOperatorState", <<>>, "ok"), Call("getAPIServicesToManageFn", <<>>, "ok")>>
    /\ enabledApiServices' = lists[1]
    /\ disabledApiServices' = lists[2]
    /\ syncDisabledAPIServicesErr' = NIL
    /\ preconditionReady' = FALSE
    /\ preconditionErr' = NIL
    /\ syncEnabledAPIServicesErr' = NIL
    /\ UNCHANGED <<envVars, operatorStatus, hasRESTClient, ret, faults>>

\* GetOperatorState fails: the error is returned as it is
SyncGetOperatorStateFails ==
    /\ BetweenSyncs
    /\ SyncReturns("Error", APIError("InternalError", OperatorStateErrText),
                   <<Call("GetOperatorState", <<>>, "error")>>)

\* case operatorsv1.Unmanaged
SyncUnmanaged ==
    /\ BetweenSyncs
    /\ managementState = "Unmanaged"
    /\ SyncReturns("Unmanaged", NIL, <<Call("GetOperatorState", <<>>, "ok")>>)

\* the default case without its return: the sync goes on to read the lists
SyncUnrecognized_FallsThrough ==
    /\ BetweenSyncs
    /\ managementState \notin {"Managed", "Unmanaged", "Removed"}
    /\ \E lists \in ManagedLists : SyncProceeds("Managed", lists)

\* default: an unrecognized management state records a warning event
SyncUnrecognized ==
    /\ BetweenSyncs
    /\ managementState \notin {"Managed", "Unmanaged", "Removed"}
    /\ SyncReturns(managementState, NIL,
                   <<Call("GetOperatorState", <<>>, "ok"), Call("Warningf", <<>>, "ok")>>)

\* getAPIServicesToManageFn fails, in the Removed case or the Managed one
SyncGetAPIServicesFails ==
    /\ BetweenSyncs
    /\ managementState \in {"Managed", "Removed"}
    /\ SyncReturns(managementState, TextError(SourceErrText),
                   <<Call("GetOperatorState", <<>>, "ok"),
                     Call("getAPIServicesToManageFn", <<>>, "error")>>)

\* case operatorsv1.Removed, the lists were read
SyncRemoved ==
    /\ BetweenSyncs
    /\ managementState = "Removed"
    /\ \E lists \in ManagedLists : SyncProceeds("Removed", lists)

\* case operatorsv1.Managed, the lists were read
SyncManaged ==
    /\ BetweenSyncs
    /\ managementState = "Managed"
    /\ \E lists \in ManagedLists : SyncProceeds("Managed", lists)

(***************************************************************************)
(* syncDisabledAPIServices                                                 *)
(***************************************************************************)
\* the errors of a lister and of a delete that fail
ListerError(name) == APIError("InternalError", ListerErrText \o name)
DeleteError(name) == APIError("InternalError", DeleteErrText \o name)

\* c.apiservicelister.Get(name): the cached object, or an error
ListerGet(name, listerFails) ==
    IF name \in listerFails
    THEN [obj |-> CacheView(Absent), err |-> ListerError(name)]
    ELSE IF ~cache[name].present
    THEN [obj |-> CacheView(Absent), err |-> APIError("NotFound", name)]
    ELSE [obj |-> cache[name], err |-> NIL]

\* APIServices().Delete(ctx, name, DeleteOptions{}) on the API server
Delete(st, name, deleteFails) ==
    IF name \in deleteFails THEN [store |-> st, err |-> DeleteError(name)]
    ELSE IF ~st[name].present THEN [store |-> st, err |-> APIError("NotFound", name)]
    ELSE IF st[name].deleting THEN [store |-> st, err |-> NIL]
    ELSE [store |-> [st EXCEPT ![name] = Absent], err |-> NIL]

\* the test on DeletionTimestamp left out
NotYetDeleted_Never(obj) == FALSE

\* if apiServiceObj.DeletionTimestamp != nil: the object is being deleted
NotYetDeleted(obj) == obj.deleting

\* the test on the error of Delete without IsNotFound
DeleteErrCollected_AnyErr(err) == err # NIL

\* err != nil && !apierrors.IsNotFound(err), the test on the error of Delete
DeleteErrCollected(err) == err # NIL /\ ~IsNotFound(err)

\* the else branch without IsNotFound: every error of the lister is collected
GetErrCollected_AnyErr(err) == TRUE

\* else if !apierrors.IsNotFound(err), the test on the error of the lister
GetErrCollected(err) == ~IsNotFound(err)

RECURSIVE DisabledLoop(_, _, _, _, _, _)
\* the for loop of syncDisabledAPIServices over apiServices
DisabledLoop(apiServices, st, errs, cs, listerFails, deleteFails) ==
    IF apiServices = <<>> THEN [store |-> st, errs |-> errs, calls |-> cs]
    ELSE
      LET name == apiServices[1].name
          got == ListerGet(name, listerFails)
          cs1 == Append(cs, Call("Get", name, ResultOf(got.err)))
          rest == Tail(apiServices)
      IN IF got.err = NIL
         THEN IF NotYetDeleted(got.obj)
              THEN DisabledLoop(rest, st, errs, cs1, listerFails, deleteFails)
              ELSE LET del == Delete(st, name, deleteFails)
                       cs2 == Append(cs1, Call("Delete", name, ResultOf(del.err)))
                   IN IF DeleteErrCollected(del.err)
                      THEN DisabledLoop(rest, del.store, Append(errs, del.err), cs2, listerFails, deleteFails)
                      ELSE DisabledLoop(rest, del.store, errs, cs2, listerFails, deleteFails)
         ELSE IF GetErrCollected(got.err)
              THEN DisabledLoop(rest, st, Append(errs, got.err), cs1, listerFails, deleteFails)
              ELSE DisabledLoop(rest, st, errs, cs1, listerFails, deleteFails)

\* syncDisabledAPIServices(ctx, apiServices): the store after it, its result, its calls
syncDisabledAPIServices(apiServices, listerFails, deleteFails) ==
    LET r == DisabledLoop(apiServices, store, <<>>, <<>>, listerFails, deleteFails)
    IN [store |-> r.store, err |-> NewAggregate(r.errs), calls |-> r.calls]

\* the disabled list alone
RemovedApiServices_DisabledOnly(enabled, disabled) == disabled

\* append(enabledApiServices, disabledApiServices...)
RemovedApiServices(enabled, disabled) == enabled \o disabled

\* sync, Removed: the disabling path on all the registrations, and return
SyncRemovedDisabledWith(listerFaults, deleteFaults) ==
    /\ pc = "disabling"
    /\ cycleState = "Removed"
    /\ \E listerFails \in Effective(listerFaults, enabledApiServices \o disabledApiServices),
          deleteFails \in Effective(deleteFaults, enabledApiServices \o disabledApiServices) :
         LET r == syncDisabledAPIServices(
                      RemovedApiServices(enabledApiServices, disabledApiServices),
                      listerFails, deleteFails)
         IN /\ store' = r.store
            /\ calls' = calls \o r.calls
            /\ ret' = r.err
            /\ syncDisabledAPIServicesErr' = r.err
            /\ faults' = [faults EXCEPT !.lister = listerFails, !.delete = deleteFails]
    /\ pc' = "done"
    /\ UNCHANGED <<managementState, operatorStatus, cache, ctxDone, hasRESTClient,
                   cycleState, enabledApiServices, disabledApiServices, preconditionReady,
                   preconditionErr, syncEnabledAPIServicesErr>>

\* sync, Managed, with the disabling path handed both lists as in the Removed case
SyncManagedDisabledWith_BothLists(listerFaults, deleteFaults) ==
    /\ pc = "disabling"
    /\ cycleState = "Managed"
    /\ \E listerFails \in Effective(listerFaults, enabledApiServices \o disabledApiServices),
          deleteFails \in Effective(deleteFaults, enabledApiServices \o disabledApiServices) :
         LET r == syncDisabledAPIServices(enabledApiServices \o disabledApiServices,
                                          listerFails, deleteFails)
         IN /\ store' = r.store
            /\ calls' = calls \o r.calls
            /\ syncDisabledAPIServicesErr' = r.err
            /\ faults' = [faults EXCEPT !.lister = listerFails, !.delete = deleteFails]
    /\ pc' = "precondition"
    /\ UNCHANGED <<managementState, operatorStatus, cache, ctxDone, hasRESTClient,
                   cycleState, enabledApiServices, disabledApiServices, preconditionReady,
                   preconditionErr, syncEnabledAPIServicesErr, ret>>

\* sync, Managed: the disabling path on the disabled list
SyncManagedDisabledWith(listerFaults, deleteFaults) ==
    /\ pc = "disabling"
    /\ cycleState = "Managed"
    /\ \E listerFails \in Effective(listerFaults, disabledApiServices),
          deleteFails \in Effective(deleteFaults, disabledApiServices) :
         LET r == syncDisabledAPIServices(disabledApiServices, listerFails, deleteFails)
         IN /\ store' = r.store
            /\ calls' = calls \o r.calls
            /\ syncDisabledAPIServicesErr' = r.err
            /\ faults' = [faults EXCEPT !.lister = listerFails, !.delete = deleteFails]
    /\ pc' = "precondition"
    /\ UNCHANGED <<managementState, operatorStatus, cache, ctxDone, hasRESTClient,
                   cycleState, enabledApiServices, disabledApiServices, preconditionReady,
                   preconditionErr, syncEnabledAPIServicesErr, ret>>

\* the calls the collaborators fail in the syncs of Spec: the lister and the
\* delete of some names, the apply and the discovery of some names
ListerFaults == {{}, {svcA}}
DeleteFaults == {{}, Names}
ApplyFaults == {{}, {svcA}}
DiscoveryFaults == {{}, {svcB}}

SyncRemovedDisabled == SyncRemovedDisabledWith(ListerFaults, DeleteFaults)
SyncManagedDisabled == SyncManagedDisabledWith(ListerFaults, DeleteFaults)

(***************************************************************************)
(* the precondition                                                        *)
(***************************************************************************)
\* the test on the precondition without its ready flag
EnablingPathRuns_IgnoresReady(ready, err) == err = NIL

\* if preconditionErr == nil && preconditionReady: the enabling path runs
EnablingPathRuns(ready, err) == err = NIL /\ ready

\* c.preconditionForEnabledAPIServices(enabledApiServices) and the test on it
SyncPrecondition_OnlyAfterCleanDisabling ==
    /\ pc = "precondition"
    /\ \E ready \in BOOLEAN, err \in {NIL, TextError(PreconditionErrText)} :
         /\ preconditionReady' = ready
         /\ preconditionErr' = err
         /\ pc' = IF EnablingPathRuns(ready, err) /\ syncDisabledAPIServicesErr = NIL
                  THEN "enabling" ELSE "status"
         /\ calls' = Append(calls, Call("preconditionForEnabledAPIServices", <<>>, ResultOf(err)))
    /\ UNCHANGED <<envVars, operatorStatus, hasRESTClient, cycleState, enabledApiServices,
                   disabledApiServices, syncDisabledAPIServicesErr,
                   syncEnabledAPIServicesErr, ret, faults>>

\* preconditionReady, preconditionErr := c.preconditionForEnabledAPIServices(...)
\* and the test that lets the enabling path run
SyncPrecondition ==
    /\ pc = "precondition"
    /\ \E ready \in BOOLEAN, err \in {NIL, TextError(PreconditionErrText)} :
         /\ preconditionReady' = ready
         /\ preconditionErr' = err
         /\ pc' = IF EnablingPathRuns(ready, err) THEN "enabling" ELSE "status"
         /\ calls' = Append(calls, Call("preconditionForEnabledAPIServices", <<>>, ResultOf(err)))
    /\ UNCHANGED <<envVars, operatorStatus, hasRESTClient, cycleState, enabledApiServices,
                   disabledApiServices, syncDisabledAPIServicesErr,
                   syncEnabledAPIServicesErr, ret, faults>>

(***************************************************************************)
(* syncEnabledAPIServices                                                  *)
(***************************************************************************)
\* the error of an apply that fails
ApplyError(name) == APIError("InternalError", ApplyErrText \o name)

\* resourceapply.ApplyAPIService: create the object when there is none, update
\* it when its spec differs from the required one, else leave it alone
ApplyAPIService(st, required, applyFails) ==
    LET name == required.name
        \* the API server defaults the port of what it stores
        defaulted == IF required.port = NilPort THEN 443 ELSE required.port
    IN IF name \in applyFails
       THEN [store |-> st, obj |-> Absent, changed |-> FALSE, err |-> ApplyError(name)]
       ELSE IF ~st[name].present
       THEN LET created == [present |-> TRUE, deleting |-> FALSE, port |-> defaulted, conds |-> <<>>]
            IN [store |-> [st EXCEPT ![name] = created], obj |-> created, changed |-> TRUE, err |-> NIL]
       ELSE IF st[name].port = required.port
       THEN [store |-> st, obj |-> st[name], changed |-> FALSE, err |-> NIL]
       ELSE LET updated == [st[name] EXCEPT !.port = defaulted]
            IN [store |-> [st EXCEPT ![name] = updated], obj |-> updated, changed |-> TRUE, err |-> NIL]

RECURSIVE AvailableConditionMessage(_, _)
\* the inner loop over apiService.Status.Conditions: the messages, none or
\* one, that the first condition of type Available adds
AvailableConditionMessage(name, conditions) ==
    IF conditions = <<>> THEN <<>>
    ELSE IF conditions[1].type = "Available"
    THEN IF conditions[1].status # "True"
         THEN <<AvailableMessage(name, conditions[1].message)>>
         ELSE <<>>
    ELSE AvailableConditionMessage(name, Tail(conditions))

\* the for loop with a break where it has continue: the first apply that
\* fails ends it
RECURSIVE EnabledLoop_StopsOnError(_, _, _, _, _, _)
EnabledLoop_StopsOnError(apiServices, st, errs, messages, cs, applyFails) ==
    IF apiServices = <<>> THEN [store |-> st, errs |-> errs, messages |-> messages, calls |-> cs]
    ELSE
      LET required == SetDefaults_ServiceReference(apiServices[1])
          applied == ApplyAPIService(st, required, applyFails)
          cs1 == Append(cs, Call("ApplyAPIService", required.name,
                                 IF applied.err # NIL THEN "error"
                                 ELSE IF applied.changed THEN "changed" ELSE "unchanged"))
          rest == Tail(apiServices)
      IN IF applied.err # NIL
         THEN [store |-> applied.store, errs |-> Append(errs, applied.err),
               messages |-> messages, calls |-> cs1]
         ELSE EnabledLoop_StopsOnError(rest, applied.store, errs,
                          messages \o AvailableConditionMessage(required.name, applied.obj.conds),
                          cs1, applyFails)

RECURSIVE EnabledLoop(_, _, _, _, _, _)
\* the for loop of syncEnabledAPIServices over enabledApiServices
EnabledLoop(apiServices, st, errs, messages, cs, applyFails) ==
    IF apiServices = <<>> THEN [store |-> st, errs |-> errs, messages |-> messages, calls |-> cs]
    ELSE
      LET required == SetDefaults_ServiceReference(apiServices[1])
          applied == ApplyAPIService(st, required, applyFails)
          cs1 == Append(cs, Call("ApplyAPIService", required.name,
                                 IF applied.err # NIL THEN "error"
                                 ELSE IF applied.changed THEN "changed" ELSE "unchanged"))
          rest == Tail(apiServices)
      IN IF applied.err # NIL
         THEN EnabledLoop(rest, applied.store, Append(errs, applied.err), messages, cs1, applyFails)
         ELSE EnabledLoop(rest, applied.store, errs,
                          messages \o AvailableConditionMessage(required.name, applied.obj.conds),
                          cs1, applyFails)

RECURSIVE checkDiscoveryForByAPIServices(_, _)
\* one probe per registration; a message for each one missing from discovery
checkDiscoveryForByAPIServices(apiServices, missing) ==
    IF apiServices = <<>> THEN [messages |-> <<>>, calls |-> <<>>]
    ELSE LET name == apiServices[1].name
             rest == checkDiscoveryForByAPIServices(Tail(apiServices), missing)
         IN [messages |-> (IF name \in missing THEN <<AvailableMessage(name, DiscoveryText)>> ELSE <<>>)
                              \o rest.messages,
             calls |-> <<Call("Discovery", name, IF name \in missing THEN "error" ELSE "ok")>>
                          \o rest.calls]

\* the messages joined as they were collected, without the sort
MessagesError_Unsorted(messages) == TextError(Sprintf0(Join(messages, <<10>>)))

\* sort.Sort(sort.StringSlice(messages)); fmt.Errorf(strings.Join(messages, "\n"))
MessagesError(messages) == TextError(Sprintf0(Join(SortStrings(messages), <<10>>)))

\* syncEnabledAPIServices that probes discovery and drops what the probe found
syncEnabledAPIServices_DropsMissing(apiServices, applyFails, missing) ==
    LET r == EnabledLoop(apiServices, store, <<>>, <<>>, <<>>, applyFails)
        probed == IF hasRESTClient THEN checkDiscoveryForByAPIServices(apiServices, missing)
                  ELSE [messages |-> <<>>, calls |-> <<>>]
    IN IF Len(r.errs) > 0
       THEN [store |-> r.store, err |-> NewAggregate(r.errs), calls |-> r.calls]
       ELSE IF Len(r.messages) > 0
       THEN [store |-> r.store, err |-> MessagesError(r.messages), calls |-> r.calls]
       ELSE [store |-> r.store, err |-> NIL, calls |-> r.calls \o probed.calls]

\* syncEnabledAPIServices without the early return on apply errors: the
\* messages and the probe follow them into the aggregate
syncEnabledAPIServices_NoShortCircuit(apiServices, applyFails, missing) ==
    LET r == EnabledLoop(apiServices, store, <<>>, <<>>, <<>>, applyFails)
        probed == IF hasRESTClient THEN checkDiscoveryForByAPIServices(apiServices, missing)
                  ELSE [messages |-> <<>>, calls |-> <<>>]
    IN IF Len(r.messages) > 0
       THEN [store |-> r.store,
             err |-> NewAggregate(Append(r.errs, MessagesError(r.messages))),
             calls |-> r.calls]
       ELSE IF Len(probed.messages) > 0
       THEN [store |-> r.store,
             err |-> NewAggregate(Append(r.errs, MessagesError(probed.messages))),
             calls |-> r.calls \o probed.calls]
       ELSE [store |-> r.store, err |-> NewAggregate(r.errs), calls |-> r.calls \o probed.calls]

\* syncEnabledAPIServices(ctx, enabledApiServices, recorder)
syncEnabledAPIServices(apiServices, applyFails, missing) ==
    LET r == EnabledLoop(apiServices, store, <<>>, <<>>, <<>>, applyFails)
        probed == IF hasRESTClient THEN checkDiscoveryForByAPIServices(apiServices, missing)
                  ELSE [messages |-> <<>>, calls |-> <<>>]
    IN IF Len(r.errs) > 0
       THEN [store |-> r.store, err |-> NewAggregate(r.errs), calls |-> r.calls]
       ELSE IF Len(r.messages) > 0
       THEN [store |-> r.store, err |-> MessagesError(r.messages), calls |-> r.calls]
       ELSE IF Len(probed.messages) > 0
       THEN [store |-> r.store, err |-> MessagesError(probed.messages), calls |-> r.calls \o probed.calls]
       ELSE [store |-> r.store, err |-> NIL, calls |-> r.calls \o probed.calls]

\* sync, Managed, precondition ready: the enabling path
SyncEnabledWith(applyFaults, discoveryFaults) ==
    /\ pc = "enabling"
    /\ \E applyFails \in Effective(applyFaults, enabledApiServices),
          missing \in (IF hasRESTClient THEN Effective(discoveryFaults, enabledApiServices)
                       ELSE {{}}) :
         LET r == syncEnabledAPIServices(enabledApiServices, applyFails, missing)
         IN /\ store' = r.store
            /\ calls' = calls \o r.calls
            /\ syncEnabledAPIServicesErr' = r.err
            /\ faults' = [faults EXCEPT !.apply = applyFails, !.discovery = missing]
    /\ pc' = "status"
    /\ UNCHANGED <<managementState, operatorStatus, cache, ctxDone, hasRESTClient,
                   cycleState, enabledApiServices, disabledApiServices,
                   syncDisabledAPIServicesErr, preconditionReady, preconditionErr, ret>>

SyncEnabled == SyncEnabledWith(ApplyFaults, DiscoveryFaults)

(***************************************************************************)
(* updateOperatorStatus                                                    *)
(***************************************************************************)
\* the errs collected in the shutdown branch, each wrapped by fmt.Errorf
ShutdownErrs(disabledErr, readyErr, enabledErr) ==
    (IF disabledErr # NIL THEN <<Errorf(ShutDisabledFmt, disabledErr)>> ELSE <<>>)
    \o (IF readyErr # NIL THEN <<Errorf(ShutPreconditionFmt, readyErr)>> ELSE <<>>)
    \o (IF enabledErr # NIL THEN <<Errorf(ShutEnabledFmt, enabledErr)>> ELSE <<>>)

\* conditionAPIServicesDegraded set from the error but without its message
ConditionAPIServicesDegraded_NoMessage(disabledErr) ==
    IF disabledErr # NIL
    THEN OperatorCondition("True", "DisabledAPIServicesPresent", <<>>)
    ELSE OperatorCondition("False", "", <<>>)

\* conditionAPIServicesDegraded as the function leaves it
ConditionAPIServicesDegraded(disabledErr) ==
    IF disabledErr # NIL
    THEN OperatorCondition("True", "DisabledAPIServicesPresent", ErrorText(disabledErr))
    ELSE OperatorCondition("False", "", <<>>)

\* conditionAPIServicesAvailable with the not-ready test before the error test
ConditionAPIServicesAvailable_NotReadyFirst(readyErr, ready, enabledErr) ==
    IF ~ready
    THEN OperatorCondition("False", "PreconditionNotReady", PreconditionNotReadyMsg)
    ELSE IF enabledErr # NIL
    THEN OperatorCondition("False", "Error", ErrorText(enabledErr))
    ELSE IF readyErr # NIL
    THEN OperatorCondition("False", "ErrorCheckingPrecondition", ErrorText(readyErr))
    ELSE OperatorCondition("True", "", <<>>)

\* conditionAPIServicesAvailable as the function leaves it
ConditionAPIServicesAvailable(readyErr, ready, enabledErr) ==
    IF readyErr = NIL /\ ~ready
    THEN OperatorCondition("False", "PreconditionNotReady", PreconditionNotReadyMsg)
    ELSE IF enabledErr # NIL
    THEN OperatorCondition("False", "Error", ErrorText(enabledErr))
    ELSE IF readyErr # NIL
    THEN OperatorCondition("False", "ErrorCheckingPrecondition", ErrorText(readyErr))
    ELSE OperatorCondition("True", "", <<>>)

\* the return statements, the one for a precondition that is not ready returning nil
ReturnedAggregate_NotReadyReturnsNil(disabledErr, readyErr, ready, enabledErr) ==
    IF readyErr = NIL /\ ~ready
    THEN NIL
    ELSE NewAggregate(<<disabledErr, readyErr, enabledErr>>)

\* what the return statements of the function hand back, before the deferred write
ReturnedAggregate(disabledErr, readyErr, ready, enabledErr) ==
    IF readyErr = NIL /\ ~ready
    THEN NewAggregate(<<disabledErr>>)
    ELSE NewAggregate(<<disabledErr, readyErr, enabledErr>>)

\* updateOperatorStatus whose deferred write does not assign its error to err
updateOperatorStatus_KeepsOwnError(disabledErr, readyErr, ready, enabledErr, updateFails) ==
    IF (disabledErr # NIL \/ readyErr # NIL \/ enabledErr # NIL) /\ ctxDone
    THEN [status |-> operatorStatus,
          err |-> Errorf(ShutdownFmt, NewAggregate(ShutdownErrs(disabledErr, readyErr, enabledErr))),
          calls |-> <<>>]
    ELSE IF updateFails
    THEN [status |-> operatorStatus,
          err |-> ReturnedAggregate(disabledErr, readyErr, ready, enabledErr),
          calls |-> <<Call("UpdateStatus", <<>>, "error")>>]
    ELSE [status |-> [APIServicesDegraded |-> ConditionAPIServicesDegraded(disabledErr),
                      APIServicesAvailable |->
                          ConditionAPIServicesAvailable(readyErr, ready, enabledErr)],
          err |-> ReturnedAggregate(disabledErr, readyErr, ready, enabledErr),
          calls |-> <<Call("UpdateStatus", <<>>, "ok")>>]

\* updateOperatorStatus without the look at ctx.Done()
updateOperatorStatus_NoShutdown(disabledErr, readyErr, ready, enabledErr, updateFails) ==
    IF updateFails
    THEN [status |-> operatorStatus,
          err |-> APIError("InternalError", UpdateErrText),
          calls |-> <<Call("UpdateStatus", <<>>, "error")>>]
    ELSE [status |-> [APIServicesDegraded |-> ConditionAPIServicesDegraded(disabledErr),
                      APIServicesAvailable |->
                          ConditionAPIServicesAvailable(readyErr, ready, enabledErr)],
          err |-> ReturnedAggregate(disabledErr, readyErr, ready, enabledErr),
          calls |-> <<Call("UpdateStatus", <<>>, "ok")>>]

\* updateOperatorStatus(ctx, syncDisabledAPIServicesErr, preconditionReadyErr,
\*                      preconditionsReady, syncEnabledAPIServicesErr)
updateOperatorStatus(disabledErr, readyErr, ready, enabledErr, updateFails) ==
    IF (disabledErr # NIL \/ readyErr # NIL \/ enabledErr # NIL) /\ ctxDone
    THEN [status |-> operatorStatus,
          err |-> Errorf(ShutdownFmt, NewAggregate(ShutdownErrs(disabledErr, readyErr, enabledErr))),
          calls |-> <<>>]
    ELSE IF updateFails
    THEN [status |-> operatorStatus,
          err |-> APIError("InternalError", UpdateErrText),
          calls |-> <<Call("UpdateStatus", <<>>, "error")>>]
    ELSE [status |-> [APIServicesDegraded |-> ConditionAPIServicesDegraded(disabledErr),
                      APIServicesAvailable |->
                          ConditionAPIServicesAvailable(readyErr, ready, enabledErr)],
          err |-> ReturnedAggregate(disabledErr, readyErr, ready, enabledErr),
          calls |-> <<Call("UpdateStatus", <<>>, "ok")>>]

\* sync, Managed: return c.updateOperatorStatus(...)
SyncUpdateOperatorStatus ==
    /\ pc = "status"
    /\ \E updateFails \in BOOLEAN :
         LET r == updateOperatorStatus(syncDisabledAPIServicesErr, preconditionErr,
                                       preconditionReady, syncEnabledAPIServicesErr, updateFails)
         IN /\ operatorStatus' = r.status
            /\ ret' = r.err
            /\ calls' = calls \o r.calls
    /\ pc' = "done"
    /\ UNCHANGED <<envVars, hasRESTClient, cycleState, locals, faults>>

(***************************************************************************)
(* The world around the controller.                                        *)
(***************************************************************************)
\* The steps of other actors are taken before a sync reads what they change:
\* a sync reads the management state when it starts, and the lister and the
\* store from the disabling path on.
WorldMayAct == pc \in {"idle", "disabling"} /\ ~ctxDone

\* somebody edits the management state of the operator
SetManagementState ==
    /\ BetweenSyncs
    /\ \E m \in ManagementStates \ {managementState} : managementState' = m
    /\ UNCHANGED <<operatorStatus, store, cache, ctxDone, hasRESTClient, pc, cycleState,
                   locals, ret, calls, faults>>

\* the process is asked to shut down; updateOperatorStatus is where a sync
\* looks at ctx.Done()
CancelContext ==
    /\ ~ctxDone
    /\ pc \in {"idle", "status"}
    /\ ctxDone' = TRUE
    /\ UNCHANGED <<managementState, operatorStatus, store, cache, hasRESTClient, pc,
                   cycleState, locals, ret, calls, faults>>

\* the informer brings the lister up to date for one name
InformerSync ==
    /\ WorldMayAct
    /\ \E n \in Names :
         /\ cache[n] # CacheView(store[n])
         /\ cache' = [cache EXCEPT ![n] = CacheView(store[n])]
    /\ UNCHANGED <<managementState, operatorStatus, store, ctxDone, hasRESTClient, pc,
                   cycleState, locals, ret, calls, faults>>

\* another actor deletes an object that has a finalizer: it is marked
MarkDeleting ==
    /\ WorldMayAct
    /\ \E n \in Names :
         /\ store[n].present /\ ~store[n].deleting
         /\ store' = [store EXCEPT ![n].deleting = TRUE]
    /\ UNCHANGED <<managementState, operatorStatus, cache, ctxDone, hasRESTClient, pc,
                   cycleState, locals, ret, calls, faults>>

\* an object goes away: deleted by another actor, or its deletion completes
Remove ==
    /\ WorldMayAct
    /\ \E n \in Names :
         /\ store[n].present
         /\ store' = [store EXCEPT ![n] = Absent]
    /\ UNCHANGED <<managementState, operatorStatus, cache, ctxDone, hasRESTClient, pc,
                   cycleState, locals, ret, calls, faults>>

\* the aggregator rewrites the conditions of an object
SetConditions ==
    /\ WorldMayAct
    /\ \E n \in Names, c \in ConditionLists :
         /\ store[n].present /\ store[n].conds # c
         /\ store' = [store EXCEPT ![n].conds = c]
    /\ UNCHANGED <<managementState, operatorStatus, cache, ctxDone, hasRESTClient, pc,
                   cycleState, locals, ret, calls, faults>>

(***************************************************************************)
(* Spec: one sync, from any state of the cluster.                          *)
(***************************************************************************)
Next ==
    \/ SyncGetOperatorStateFails
    \/ SyncUnmanaged
    \/ SyncUnrecognized
    \/ SyncGetAPIServicesFails
    \/ SyncRemoved
    \/ SyncManaged
    \/ SyncRemovedDisabled
    \/ SyncManagedDisabled
    \/ SyncPrecondition
    \/ SyncEnabled
    \/ SyncUpdateOperatorStatus
    \/ SetManagementState
    \/ CancelContext
    \/ InformerSync
    \/ Remove
    \/ SetConditions

Spec == Init /\ [][Next]_vars

(***************************************************************************)
(* SpecDisabling: the disabling path on its own, from any state of the     *)
(* lister and of the store, with any of its calls failing.                 *)
(***************************************************************************)
\* sync has read the management state and the lists
AfterGetAPIServices ==
    /\ pc = "disabling"
    /\ cycleState \in {"Managed", "Removed"}
    /\ managementState = cycleState
    /\ \E lists \in ManagedLists :
         /\ enabledApiServices = lists[1]
         /\ disabledApiServices = lists[2]
    /\ syncDisabledAPIServicesErr = NIL
    /\ preconditionReady = FALSE
    /\ preconditionErr = NIL
    /\ syncEnabledAPIServicesErr = NIL
    /\ ret = NIL
    /\ calls = <<Call("GetOperatorState", <<>>, "ok"), Call("getAPIServicesToManageFn", <<>>, "ok")>>
    /\ faults = NoFaults

InitDisabling ==
    /\ operatorStatus = PriorStatus
    /\ store \in [Names -> {Absent, Object(FALSE, 443, <<>>), Object(TRUE, 443, <<>>)}]
    /\ cache \in [Names -> {CacheView(Absent), CacheView(Object(FALSE, 443, <<>>)),
                              CacheView(Object(TRUE, 443, <<>>))}]
    /\ ctxDone = FALSE
    /\ hasRESTClient = TRUE
    /\ AfterGetAPIServices

DisablingRemoved == SyncRemovedDisabledWith(SUBSET Names, SUBSET Names)
DisablingManaged == SyncManagedDisabledWith(SUBSET Names, SUBSET Names)

NextDisabling ==
    \/ DisablingRemoved
    \/ DisablingManaged
    \/ InformerSync
    \/ MarkDeleting
    \/ Remove

SpecDisabling == InitDisabling /\ [][NextDisabling]_vars

(***************************************************************************)
(* SpecEnabling: the enabling path on its own, from any state of the       *)
(* store, with any of its calls failing.                                   *)
(***************************************************************************)
InitEnabling ==
    /\ managementState = "Managed"
    /\ operatorStatus = PriorStatus
    /\ store \in [Names -> {Absent} \cup { Object(FALSE, p, c) :
                                              p \in {443, 8443}, c \in MoreConditionLists }]
    /\ cache = [n \in Names |-> CacheView(store[n])]
    /\ ctxDone = FALSE
    /\ hasRESTClient \in BOOLEAN
    /\ pc = "enabling"
    /\ cycleState = "Managed"
    /\ enabledApiServices \in RegistrationLists
    /\ disabledApiServices = <<>>
    /\ syncDisabledAPIServicesErr = NIL
    /\ preconditionReady = TRUE
    /\ preconditionErr = NIL
    /\ syncEnabledAPIServicesErr = NIL
    /\ ret = NIL
    /\ calls = <<>>
    /\ faults = NoFaults

Enabling == SyncEnabledWith(SUBSET Names, SUBSET Names)

NextEnabling == Enabling

SpecEnabling == InitEnabling /\ [][NextEnabling]_vars

(***************************************************************************)
(* SpecPaths: either path on its own, as in SpecDisabling and SpecEnabling. *)
(***************************************************************************)
InitPaths == InitDisabling \/ InitEnabling

NextPaths == NextDisabling \/ NextEnabling

SpecPaths == InitPaths /\ [][NextPaths]_vars

(***************************************************************************)
(* SpecConverge: Managed syncs one after the other, every ten seconds and  *)
(* on every event of the informers, on lists that stay the same: svcA      *)
(* enabled, svcB disabled. The calls may fail, the lister lags, and an     *)
(* object marked for deletion goes away when its finalizers are done.      *)
(***************************************************************************)
\* the lists getAPIServicesToManageFn returns to every sync
ConvergeLists == <<ListOf(svcA), ListOf(svcB)>>

InitConverge ==
    /\ managementState = "Managed"
    /\ operatorStatus = PriorStatus
    /\ store \in [Names -> StoreObjects \cup {Object(TRUE, 443, <<>>)}]
    /\ ~store[svcA].deleting
    /\ cache \in [Names -> {CacheView(Absent), CacheView(Object(FALSE, 443, <<>>)),
                              CacheView(Object(TRUE, 443, <<>>))}]
    /\ cache[svcA] = CacheView(store[svcA])
    /\ ctxDone = FALSE
    /\ hasRESTClient = TRUE
    /\ Idle

\* case operatorsv1.Managed, the lists read are the fixed ones
ConvergeManaged ==
    /\ BetweenSyncs
    /\ managementState = "Managed"
    /\ SyncProceeds("Managed", ConvergeLists)

\* ResyncEvery(10*time.Second) and the informers: the sync is called again
Resync ==
    /\ pc = "done"
    /\ pc' = "idle"
    /\ cycleState' = "None"
    /\ enabledApiServices' = <<>>
    /\ disabledApiServices' = <<>>
    /\ syncDisabledAPIServicesErr' = NIL
    /\ preconditionReady' = FALSE
    /\ preconditionErr' = NIL
    /\ syncEnabledAPIServicesErr' = NIL
    /\ ret' = NIL
    /\ calls' = <<>>
    /\ faults' = NoFaults
    /\ UNCHANGED <<envVars, operatorStatus, hasRESTClient>>

\* the finalizers of an object marked for deletion are done: it goes away
FinishDeletion ==
    /\ WorldMayAct
    /\ \E n \in Names :
         /\ store[n].present /\ store[n].deleting
         /\ store' = [store EXCEPT ![n] = Absent]
    /\ UNCHANGED <<managementState, operatorStatus, cache, ctxDone, hasRESTClient, pc,
                   cycleState, locals, ret, calls, faults>>

\* the steps of the controller
ConvergeSync ==
    \/ ConvergeManaged
    \/ SyncManagedDisabled
    \/ SyncPrecondition
    \/ SyncEnabled
    \/ SyncUpdateOperatorStatus
    \/ Resync

NextConverge ==
    \/ ConvergeSync
    \/ InformerSync
    \/ SetConditions
    \/ FinishDeletion

\* a step of the controller: the steps of ConvergeSync are those that move pc,
\* and one of them is possible wherever pc is
SyncStep ==
    \E p \in {"idle", "disabling", "precondition", "enabling", "status", "done"} :
        p # pc /\ pc' = p

\* the controller keeps being called and runs each sync to its end, and the
\* informer keeps bringing the lister up to date
SpecConverge ==
    /\ InitConverge
    /\ [][NextConverge]_vars
    /\ WF_pc(SyncStep)
    /\ SF_vars(InformerSync)

(***************************************************************************)
(* Properties.                                                             *)
(***************************************************************************)
\* this sync has made a call of that operation
HasCall(op) == \E i \in 1..Len(calls) : calls[i].op = op

\* the Managed sync has returned from updateOperatorStatus
StatusReturned ==
    pc = "done" /\ cycleState = "Managed" /\ HasCall("preconditionForEnabledAPIServices")

\* ... and the conditions it computed are in the operator status store
StatusWritten == StatusReturned /\ Call("UpdateStatus", <<>>, "ok") = calls[Len(calls)]

\* one of the three errors handed to updateOperatorStatus is not nil
SomeSyncErr ==
    \/ syncDisabledAPIServicesErr # NIL
    \/ preconditionErr # NIL
    \/ syncEnabledAPIServicesErr # NIL

\* C1: when updateOperatorStatus is called with the context cancelled and one
\* of its three errors not nil, no condition is written to the operator status
\* store, and the error it returns is the shutdown error, which is none of the
\* three errors and has the text of none of them.
C1_ShutdownSkipsStatus ==
    (StatusReturned /\ ctxDone /\ SomeSyncErr) =>
        /\ ~HasCall("UpdateStatus")
        /\ operatorStatus = PriorStatus
        /\ ret.kind = "text"
        /\ IsPrefix(ShutdownFmt, ret.text)
        /\ \A e \in {syncDisabledAPIServicesErr, preconditionErr, syncEnabledAPIServicesErr} :
              e # NIL => ret # e /\ ret.text # ErrorText(e)

C1_Witness ==
    /\ StatusReturned /\ ctxDone
    /\ syncDisabledAPIServicesErr # NIL
    /\ syncEnabledAPIServicesErr # NIL
    /\ IsPrefix(ShutdownFmt, ret.text)

\* C2: in a Managed sync an apply or a discovery probe is made only after the
\* precondition has returned ready = true and a nil error; when it returns
\* not ready or an error the sync makes no apply and no probe.
C2_EnablingOnlyWhenReady ==
    cycleState = "Managed" =>
        \A i \in 1..Len(calls) :
            calls[i].op \in {"ApplyAPIService", "Discovery"} =>
                /\ preconditionReady /\ preconditionErr = NIL
                /\ \E j \in 1..(i - 1) : calls[j].op = "preconditionForEnabledAPIServices"

C2_Witness ==
    /\ StatusReturned
    /\ HasCall("ApplyAPIService") /\ HasCall("Discovery")
    /\ preconditionReady /\ preconditionErr = NIL

\* what C3 says of APIServicesAvailable after a sync
PreconditionReflected ==
    /\ preconditionErr # NIL =>
          operatorStatus.APIServicesAvailable =
              OperatorCondition("False", "ErrorCheckingPrecondition", ErrorText(preconditionErr))
    /\ (preconditionErr = NIL /\ ~preconditionReady) =>
          operatorStatus.APIServicesAvailable =
              OperatorCondition("False", "PreconditionNotReady", PreconditionNotReadyMsg)

\* C3 as it is stated: after every Managed sync, APIServicesAvailable is False
\* with reason ErrorCheckingPrecondition when the precondition returned an
\* error, and else False with reason PreconditionNotReady when it returned
\* not ready.
C3_AfterEveryManagedSync == StatusReturned => PreconditionReflected

\* C3, amended: after every Managed sync that has written its conditions,
\* APIServicesAvailable is False with reason ErrorCheckingPrecondition when the
\* precondition returned an error (ready or not), and else False with reason
\* PreconditionNotReady when it returned not ready; never reason Error.
C3_AfterWrittenManagedSync == StatusWritten => PreconditionReflected

C3_Witness ==
    /\ StatusWritten
    /\ preconditionErr # NIL /\ ~preconditionReady
    /\ operatorStatus.APIServicesAvailable.reason = "ErrorCheckingPrecondition"

\* the status of the first condition of type Available, "none" without one
RECURSIVE FirstAvailableStatus(_)
FirstAvailableStatus(conditions) ==
    IF conditions = <<>> THEN "none"
    ELSE IF conditions[1].type = "Available" THEN conditions[1].status
    ELSE FirstAvailableStatus(Tail(conditions))

\* the sync has written APIServicesAvailable True
WrittenAvailable == StatusWritten /\ operatorStatus.APIServicesAvailable.status = "True"

\* C4: when a sync writes APIServicesAvailable True, the precondition returned
\* (true, nil) and the object of every enabled registration carries an
\* Available condition with status True; one without an Available condition
\* is not confirmed available.
C4_TrueOnlyWhenConfirmed ==
    WrittenAvailable =>
        /\ preconditionReady /\ preconditionErr = NIL
        /\ \A n \in NamesOf(enabledApiServices) :
              /\ store[n].present
              /\ \E k \in 1..Len(store[n].conds) :
                    store[n].conds[k].type = "Available" /\ store[n].conds[k].status = "True"

\* the enabling path has returned
EnablingReturned == pc = "status" /\ preconditionReady /\ preconditionErr = NIL

\* the errors of the applies that fail, in the order of the list
RECURSIVE ApplyErrsOf(_, _)
ApplyErrsOf(apiServices, applyFails) ==
    IF apiServices = <<>> THEN <<>>
    ELSE (IF apiServices[1].name \in applyFails THEN <<ApplyError(apiServices[1].name)>> ELSE <<>>)
         \o ApplyErrsOf(Tail(apiServices), applyFails)

\* sub occurs in text
Contains(text, sub) ==
    \E i \in 0..(Len(text) - Len(sub)) : SubSeq(text, i + 1, i + Len(sub)) = sub

\* C5: when an apply of the enabling path fails, the path returns the aggregate
\* of exactly the apply errors, in the order of the list: its text holds no
\* "not available" message of a registration whose apply succeeded, and no
\* discovery probe is made.
C5_ApplyErrorsShortCircuit ==
    (EnablingReturned /\ faults.apply # {}) =>
        /\ syncEnabledAPIServicesErr = [kind |-> "aggregate",
                                         errs |-> ApplyErrsOf(enabledApiServices, faults.apply)]
        /\ ~Contains(ErrorText(syncEnabledAPIServicesErr), AvailMid)
        /\ ~HasCall("Discovery")

C5_Witness ==
    /\ EnablingReturned /\ hasRESTClient
    /\ enabledApiServices = <<Registration(svcA), Registration(svcB)>>
    /\ faults.apply = {svcA}
    /\ FirstAvailableStatus(store[svcB].conds) = "False"
    /\ syncEnabledAPIServicesErr = NewAggregate(<<ApplyError(svcA)>>)

\* the messages C6 expects: for each registration of the list whose object has
\* a first Available condition that is not True, its name, ": not available: "
\* and the message of that condition
RECURSIVE ExpectedMessages(_)
ExpectedMessages(apiServices) ==
    IF apiServices = <<>> THEN <<>>
    ELSE LET name == apiServices[1].name
             first == SelectSeq(store[name].conds, LAMBDA c : c.type = "Available")
         IN (IF first # <<>> /\ first[1].status # "True"
             THEN <<AvailableMessage(name, first[1].message)>> ELSE <<>>)
            \o ExpectedMessages(Tail(apiServices))

\* C6: when every apply succeeds and some registration reports a first
\* Available condition that is not True, the enabling path returns one error
\* whose text is the messages "<name>: not available: <condition message>",
\* one per such registration, sorted and joined with newlines.
C6_SortedJoinedMessages ==
    (EnablingReturned /\ faults.apply = {} /\ ExpectedMessages(enabledApiServices) # <<>>) =>
        /\ syncEnabledAPIServicesErr.kind = "text"
        /\ syncEnabledAPIServicesErr.text =
              Join(SortStrings(ExpectedMessages(enabledApiServices)), <<10>>)

\* the names the sync has asked the lister for, in the order of the calls
GetNames ==
    LET gets == SelectSeq(calls, LAMBDA c : c.op = "Get")
    IN [i \in 1..Len(gets) |-> gets[i].name]

\* C7: a sync that reads Removed hands every registration of the enabled and
\* of the disabled list to the disabling path, and calls neither the
\* precondition nor apply nor discovery (nor writes the status).
C7_RemovedDisablesAll ==
    (pc = "done" /\ cycleState = "Removed"
       /\ \E i \in 1..Len(calls) : calls[i] = Call("getAPIServicesToManageFn", <<>>, "ok")) =>
        /\ GetNames = [i \in 1..Len(enabledApiServices \o disabledApiServices) |->
                          (enabledApiServices \o disabledApiServices)[i].name]
        /\ ~HasCall("preconditionForEnabledAPIServices")
        /\ ~HasCall("ApplyAPIService")
        /\ ~HasCall("Discovery")
        /\ ~HasCall("UpdateStatus")

C7_Witness ==
    /\ pc = "done" /\ cycleState = "Removed"
    /\ Len(enabledApiServices) = 1 /\ Len(disabledApiServices) = 1
    /\ Len(GetNames) = 2
    /\ HasCall("Delete")

\* the disabling path has returned
DisablingReturned == pc \in {"precondition", "done"} /\ HasCall("Get")

\* the errors in the aggregate the disabling path returned
DisabledErrs ==
    IF syncDisabledAPIServicesErr = NIL THEN {}
    ELSE { syncDisabledAPIServicesErr.errs[i] : i \in 1..Len(syncDisabledAPIServicesErr.errs) }

\* the registrations the disabling path was handed
DisablingNames ==
    IF cycleState = "Removed" THEN NamesOf(enabledApiServices \o disabledApiServices)
    ELSE NamesOf(disabledApiServices)

\* C8: a registration the lister reports not found, and one the lister finds
\* but whose delete returns not found because another actor deleted it first,
\* put no error in the aggregate of the disabling path; when every
\* registration ends that way the path returns nil.
C8_NotFoundIsNoError ==
    DisablingReturned =>
        /\ \A e \in DisabledErrs : ~IsNotFound(e)
        /\ \A i \in 1..Len(calls) :
              calls[i].result = "NotFound" =>
                  DisabledErrs \cap {ListerError(calls[i].name), DeleteError(calls[i].name)} = {}
        /\ (\A n \in DisablingNames :
               \E i \in 1..Len(calls) : calls[i].name = n /\ calls[i].result = "NotFound")
              => syncDisabledAPIServicesErr = NIL

C8_Witness ==
    /\ DisablingReturned
    /\ Call("Get", svcA, "NotFound") \in { calls[i] : i \in 1..Len(calls) }
    /\ Call("Delete", svcB, "NotFound") \in { calls[i] : i \in 1..Len(calls) }
    /\ syncDisabledAPIServicesErr = NIL

\* C9: for a registration whose object the lister returns with its deletion
\* timestamp set, the disabling path makes no delete call and puts no error in
\* its aggregate, whatever the sync and whatever else is in the list.
C9_DeletingIsLeftAlone ==
    DisablingReturned =>
        \A n \in DisablingNames :
            (cache[n].present /\ cache[n].deleting /\ n \notin faults.lister) =>
                /\ \A i \in 1..Len(calls) : ~(calls[i].op = "Delete" /\ calls[i].name = n)
                /\ DisabledErrs \cap {ListerError(n), DeleteError(n)} = {}

C9_Witness ==
    /\ DisablingReturned
    /\ svcA \in DisablingNames
    /\ cache[svcA].present /\ cache[svcA].deleting
    /\ Call("Get", svcA, "ok") \in { calls[i] : i \in 1..Len(calls) }
    /\ faults.delete = {svcA}
    /\ syncDisabledAPIServicesErr = NIL

\* the enabling path run once more, on the same registrations and with the
\* same calls failing, from the store the first run left
SecondRun == syncEnabledAPIServices(enabledApiServices, faults.apply, faults.discovery)

\* C10: a second run of the enabling path on the same registrations, nothing
\* else having touched the store, leaves the store as it is (no apply of it
\* reports changed) and returns what the first run returned.
C10_SecondRunChangesNothing ==
    EnablingReturned =>
        /\ SecondRun.store = store
        /\ \A i \in 1..Len(SecondRun.calls) : SecondRun.calls[i].result # "changed"
        /\ SecondRun.err = syncEnabledAPIServicesErr

C10_Witness ==
    /\ EnablingReturned
    /\ Len(enabledApiServices) = 2
    /\ \E i \in 1..Len(calls) : calls[i] = Call("ApplyAPIService", svcA, "changed")
    /\ \E i \in 1..Len(SecondRun.calls) :
          SecondRun.calls[i] = Call("ApplyAPIService", svcA, "unchanged")
    /\ syncEnabledAPIServicesErr # NIL

\* C11: a sync that reads Unmanaged, or a management state that is none of
\* Managed, Unmanaged and Removed, returns nil and changes nothing: it does not
\* call getAPIServicesToManageFn, makes no get, delete or apply, writes no
\* condition, and leaves the store and the operator status as they were; for
\* an unrecognized state it records one warning event and nothing else.
C11_UnmanagedAndUnknownAreNoOps ==
    [][(pc = "idle" /\ pc' # "idle" /\ managementState \notin {"Managed", "Removed"}
          /\ calls'[1] = Call("GetOperatorState", <<>>, "ok")) =>
         /\ pc' = "done"
         /\ ret' = NIL
         /\ calls' = IF managementState = "Unmanaged"
                     THEN <<Call("GetOperatorState", <<>>, "ok")>>
                     ELSE <<Call("GetOperatorState", <<>>, "ok"), Call("Warningf", <<>>, "ok")>>
         /\ store' = store
         /\ cache' = cache
         /\ operatorStatus' = operatorStatus]_vars

C11_Witness ==
    /\ pc = "done"
    /\ managementState = "Force"
    /\ ret = NIL
    /\ HasCall("Warningf")
    /\ \E n \in Names : store[n].present

\* C12: a Managed sync that writes its conditions writes APIServicesDegraded
\* True with reason DisabledAPIServicesPresent and the text of the error of
\* the disabling path when that path returned an error, and False otherwise,
\* whatever the precondition and the enabling path returned.
C12_DegradedIffDisablingFailed ==
    StatusWritten =>
        /\ syncDisabledAPIServicesErr # NIL =>
              operatorStatus.APIServicesDegraded =
                  [status |-> "True", reason |-> "DisabledAPIServicesPresent",
                   message |-> ErrorText(syncDisabledAPIServicesErr)]
        /\ syncDisabledAPIServicesErr = NIL =>
              operatorStatus.APIServicesDegraded =
                  [status |-> "False", reason |-> "", message |-> <<>>]

C12_Witness ==
    /\ StatusWritten
    /\ syncDisabledAPIServicesErr # NIL
    /\ syncEnabledAPIServicesErr # NIL
    /\ operatorStatus.APIServicesDegraded.status = "True"
    /\ operatorStatus.APIServicesDegraded.message # <<>>

\* updateOperatorStatus has returned and was not in the shutdown case
ReturnedOutsideShutdown == StatusReturned /\ ~(ctxDone /\ SomeSyncErr)

\* the calls of UpdateStatus the sync has made
UpdateStatusCalls == SelectSeq(calls, LAMBDA c : c.op = "UpdateStatus")

\* the condition APIServicesAvailable that the three results of the sync call for
ExpectedAvailable ==
    IF preconditionErr # NIL
    THEN [status |-> "False", reason |-> "ErrorCheckingPrecondition",
          message |-> ErrorText(preconditionErr)]
    ELSE IF ~preconditionReady
    THEN [status |-> "False", reason |-> "PreconditionNotReady",
          message |-> PreconditionNotReadyMsg]
    ELSE IF syncEnabledAPIServicesErr # NIL
    THEN [status |-> "False", reason |-> "Error",
          message |-> ErrorText(syncEnabledAPIServicesErr)]
    ELSE [status |-> "True", reason |-> "", message |-> <<>>]

\* C13: outside the shutdown case updateOperatorStatus calls UpdateStatus
\* exactly once, as its last step, on every path (the early return for a
\* precondition that is not ready among them); a write that succeeds leaves
\* in the store the two conditions of this call, and the error of a write that
\* fails is what the function returns, whatever it would have returned.
C13_StatusWrittenLastAndOverrides ==
    ReturnedOutsideShutdown =>
        /\ Len(UpdateStatusCalls) = 1
        /\ calls[Len(calls)].op = "UpdateStatus"
        /\ calls[Len(calls)].result = "ok" =>
              /\ operatorStatus.APIServicesAvailable = ExpectedAvailable
              /\ operatorStatus.APIServicesDegraded.status =
                    (IF syncDisabledAPIServicesErr # NIL THEN "True" ELSE "False")
        /\ calls[Len(calls)].result = "error" =>
              ret = APIError("InternalError", UpdateErrText)

C13_Witness ==
    /\ ReturnedOutsideShutdown
    /\ ~preconditionReady /\ preconditionErr = NIL
    /\ syncDisabledAPIServicesErr # NIL
    /\ calls[Len(calls)] = Call("UpdateStatus", <<>>, "error")
    /\ ret = APIError("InternalError", UpdateErrText)

\* the names of a list of registrations, in its order
NameSeq(apiServices) == [i \in 1..Len(apiServices) |-> apiServices[i].name]

\* the names of the calls of an operation, in the order of the calls
CallNames(cs, op) ==
    LET of == SelectSeq(cs, LAMBDA c : c.op = op)
    IN [i \in 1..Len(of) |-> of[i].name]

\* C14: every get, delete and apply of a sync is for a name of the enabled or
\* of the disabled list the source returned to that sync; a step of a sync
\* leaves the object of every other name as it is; and a Managed sync makes no
\* delete for, and does not remove, a registration that is in the enabled list
\* only.
C14_OnlyManagedNamesAreTouched ==
    [][pc' # pc =>
         LET managed == NamesOf(enabledApiServices') \cup NamesOf(disabledApiServices')
             enabledOnly == NamesOf(enabledApiServices') \ NamesOf(disabledApiServices')
         IN /\ \A i \in 1..Len(calls') :
                  calls'[i].op \in {"Get", "Delete", "ApplyAPIService", "Discovery"} =>
                      calls'[i].name \in managed
            /\ \A n \in Names \ managed : store'[n] = store[n]
            /\ cycleState' = "Managed" =>
                  \A n \in enabledOnly :
                      /\ \A i \in 1..Len(calls') :
                            calls'[i].op \in {"Get", "Delete"} => calls'[i].name # n
                      /\ store[n].present => store'[n].present]_vars

C14_Witness ==
    /\ pc = "done" /\ cycleState = "Managed"
    /\ enabledApiServices = <<Registration(svcA)>>
    /\ disabledApiServices = <<>>
    /\ HasCall("ApplyAPIService")
    /\ store[svcB].present

\* C15: a Managed sync whose context is not cancelled and whose status write
\* succeeds returns the aggregate of exactly those of the error of the
\* disabling path, the error of the precondition and the error of the enabling
\* path that are not nil, in that order, and nil when all three are nil (as
\* when the precondition returns (false, nil) after a clean disabling path).
C15_ReturnsEveryCollectedError ==
    (StatusWritten /\ ~ctxDone) =>
        LET collected == SelectSeq(<<syncDisabledAPIServicesErr, preconditionErr,
                                     syncEnabledAPIServicesErr>>, LAMBDA e : e # NIL)
        IN /\ collected = <<>> => ret = NIL
           /\ collected # <<>> => ret = [kind |-> "aggregate", errs |-> collected]

C15_Witness ==
    /\ StatusWritten /\ ~ctxDone
    /\ ~preconditionReady /\ preconditionErr = NIL
    /\ syncDisabledAPIServicesErr # NIL
    /\ ret = [kind |-> "aggregate", errs |-> <<syncDisabledAPIServicesErr>>]

\* the list the disabling path of this sync is handed
DisablingList ==
    IF cycleState = "Removed" THEN enabledApiServices \o disabledApiServices
    ELSE disabledApiServices

\* the errors in the aggregate the enabling path returned
EnabledErrs ==
    IF syncEnabledAPIServicesErr.kind # "aggregate" THEN {}
    ELSE { syncEnabledAPIServicesErr.errs[i] : i \in 1..Len(syncEnabledAPIServicesErr.errs) }

\* C16: the disabling path looks up every registration of its list, and deletes
\* every one the lister returns unmarked, also after a lookup or a delete that
\* failed; the enabling path applies every registration of its list, also
\* after an apply that failed; and the error of every call that failed is in
\* the aggregate the path returns.
C16_OneFailureStopsNoOther ==
    /\ (cycleState \in {"Managed", "Removed"} /\ pc \in {"precondition", "enabling", "status", "done"}
          /\ HasCall("getAPIServicesToManageFn") /\ calls[2].result = "ok") =>
          /\ CallNames(calls, "Get") = NameSeq(DisablingList)
          /\ \A i \in 1..Len(calls) :
                /\ calls[i] = Call("Get", calls[i].name, "ok") /\ ~cache[calls[i].name].deleting
                      => \E j \in (i + 1)..Len(calls) :
                            calls[j].op = "Delete" /\ calls[j].name = calls[i].name
                /\ calls[i] = Call("Get", calls[i].name, "error")
                      => ListerError(calls[i].name) \in DisabledErrs
                /\ calls[i] = Call("Delete", calls[i].name, "error")
                      => DeleteError(calls[i].name) \in DisabledErrs
    /\ (cycleState = "Managed" /\ pc \in {"status", "done"} /\ HasCall("ApplyAPIService")) =>
          /\ CallNames(calls, "ApplyAPIService") = NameSeq(enabledApiServices)
          /\ \A i \in 1..Len(calls) :
                calls[i] = Call("ApplyAPIService", calls[i].name, "error")
                    => ApplyError(calls[i].name) \in EnabledErrs

C16_Witness ==
    /\ pc = "done" /\ cycleState = "Managed"
    /\ enabledApiServices = <<Registration(svcA), Registration(svcB)>>
    /\ \E i \in 1..Len(calls) : calls[i] = Call("ApplyAPIService", svcA, "error")
    /\ \E i \in 1..Len(calls) : calls[i].op = "ApplyAPIService" /\ calls[i].name = svcB
    /\ ApplyError(svcA) \in EnabledErrs

\* C17: in a Managed sync every call of the disabling path comes before the
\* call of the precondition and before every apply and probe; the disabling
\* path has gone through its whole list by the time the precondition is
\* called, whatever the precondition then returns; and an error of the
\* disabling path does not keep the enabling path from applying its list.
C17_DisablingFirstAndAlways ==
    cycleState = "Managed" =>
        /\ \A i, j \in 1..Len(calls) :
              (calls[i].op \in {"Get", "Delete"}
                 /\ calls[j].op \in {"preconditionForEnabledAPIServices",
                                     "ApplyAPIService", "Discovery"}) => i < j
        /\ HasCall("preconditionForEnabledAPIServices") =>
              CallNames(calls, "Get") = NameSeq(disabledApiServices)
        /\ (pc \in {"status", "done"} /\ preconditionReady /\ preconditionErr = NIL) =>
              CallNames(calls, "ApplyAPIService") = NameSeq(enabledApiServices)

C17_Witness ==
    /\ StatusReturned
    /\ syncDisabledAPIServicesErr # NIL
    /\ HasCall("Delete")
    /\ HasCall("ApplyAPIService")

\* every apply of the enabling path has succeeded
AllApplied == EnablingReturned /\ faults.apply = {}

\* the messages of the registrations of a list that discovery does not serve
RECURSIVE MissingMessages(_)
MissingMessages(apiServices) ==
    IF apiServices = <<>> THEN <<>>
    ELSE (IF apiServices[1].name \in faults.discovery
          THEN <<AvailableMessage(apiServices[1].name, DiscoveryText)>> ELSE <<>>)
         \o MissingMessages(Tail(apiServices))

\* C18 as it is stated: whenever every apply succeeded and there is a discovery
\* client, discovery is probed for every enabled registration and what it
\* finds missing is in the error returned, together with the messages of the
\* Available conditions; without a client no probe is made.
C18_ProbedWheneverApplied ==
    AllApplied =>
        /\ hasRESTClient =>
              /\ CallNames(calls, "Discovery") = NameSeq(enabledApiServices)
              /\ \A n \in NamesOf(enabledApiServices) \cap faults.discovery :
                    Contains(ErrorText(syncEnabledAPIServicesErr),
                             AvailableMessage(n, DiscoveryText))
        /\ ~hasRESTClient => ~HasCall("Discovery")

\* C18, amended: whenever every apply succeeded, no registration reported an
\* Available condition that is not True, and there is a discovery client,
\* discovery is probed for every enabled registration and the messages of
\* those found missing, sorted and joined, are the error returned (nil when
\* none is missing); when an Available condition is not True the messages of
\* the conditions are returned alone and no probe is made; without a client
\* no probe is made and no error comes of that.
C18_ProbedWhenAppliedAndAvailable ==
    AllApplied =>
        /\ (hasRESTClient /\ ExpectedMessages(enabledApiServices) = <<>>) =>
              /\ CallNames(calls, "Discovery") = NameSeq(enabledApiServices)
              /\ MissingMessages(enabledApiServices) = <<>> => syncEnabledAPIServicesErr = NIL
              /\ MissingMessages(enabledApiServices) # <<>> =>
                    syncEnabledAPIServicesErr =
                        [kind |-> "text",
                         text |-> Join(SortStrings(MissingMessages(enabledApiServices)), <<10>>)]
        /\ ExpectedMessages(enabledApiServices) # <<>> =>
              /\ ~HasCall("Discovery")
              /\ syncEnabledAPIServicesErr # NIL
              /\ ~Contains(ErrorText(syncEnabledAPIServicesErr), DiscoveryText)
        /\ ~hasRESTClient =>
              /\ ~HasCall("Discovery")
              /\ ExpectedMessages(enabledApiServices) = <<>> => syncEnabledAPIServicesErr = NIL

C18_Witness ==
    /\ AllApplied /\ hasRESTClient
    /\ enabledApiServices = <<Registration(svcB), Registration(svcA)>>
    /\ ExpectedMessages(enabledApiServices) = <<>>
    /\ faults.discovery = {svcA, svcB}
    /\ Len(CallNames(calls, "Discovery")) = 2
    /\ syncEnabledAPIServicesErr # NIL

\* a list in the opposite order
Reverse(apiServices) ==
    [i \in 1..Len(apiServices) |-> apiServices[Len(apiServices) + 1 - i]]

\* the text of an error as a condition message or a log line shows it
TextOf(err) == IF err = NIL THEN <<>> ELSE ErrorText(err)

\* the messages an error carries: its own, or those of the errors it aggregates
MessagesOf(err) ==
    IF err = NIL THEN {}
    ELSE IF err.kind = "aggregate"
    THEN { Flatten(err.errs)[i].text : i \in 1..Len(Flatten(err.errs)) }
    ELSE {err.text}

\* the disabling path run from the same cache and store, with the same calls
\* failing, on its list in the opposite order
DisablingReversed(listerFails, deleteFails) ==
    syncDisabledAPIServices(Reverse(DisablingList), listerFails, deleteFails)

\* the enabling path run from the same store, with the same calls failing, on
\* its list in the opposite order
EnablingReversed(applyFails, missing) ==
    syncEnabledAPIServices(Reverse(enabledApiServices), applyFails, missing)

\* C19 as it is stated: a path handed its list in the opposite order, with the
\* same outcome of every call, returns an error of the same text (the text
\* that goes into the status condition), for delete errors, apply errors and
\* availability messages alike.
C19_SameTextInAnyOrder ==
    [][
        /\ (pc = "disabling" /\ pc' # pc) =>
             TextOf(syncDisabledAPIServicesErr') =
                 TextOf(DisablingReversed(faults'.lister, faults'.delete).err)
        /\ (pc = "enabling" /\ pc' # pc) =>
             TextOf(syncEnabledAPIServicesErr') =
                 TextOf(EnablingReversed(faults'.apply, faults'.discovery).err)]_vars

\* C19, amended: a path handed its list in the opposite order, with the same
\* outcome of every call, leaves the same store and returns an error that
\* carries the same set of messages; when no apply fails the error of the
\* enabling path, made of sorted messages, is the same error with the same
\* text. (The text of an aggregate of several delete errors or apply errors
\* lists them in the order of the list.)
C19_SameMessagesInAnyOrder ==
    [][
        /\ (pc = "disabling" /\ pc' # pc) =>
             LET other == DisablingReversed(faults'.lister, faults'.delete)
             IN /\ MessagesOf(syncDisabledAPIServicesErr') = MessagesOf(other.err)
                /\ store' = other.store
        /\ (pc = "enabling" /\ pc' # pc) =>
             LET other == EnablingReversed(faults'.apply, faults'.discovery)
             IN /\ MessagesOf(syncEnabledAPIServicesErr') = MessagesOf(other.err)
                /\ store' = other.store
                /\ faults'.apply = {} => syncEnabledAPIServicesErr' = other.err]_vars

C19_Witness ==
    /\ EnablingReturned /\ faults.apply = {}
    /\ enabledApiServices = <<Registration(svcB), Registration(svcA)>>
    /\ Len(ExpectedMessages(enabledApiServices)) = 2
    /\ syncEnabledAPIServicesErr # NIL

\* no call of the sync in flight has failed, its precondition, if it has been
\* called, returned (true, nil), and the store reports svcA, if it has it,
\* Available True
Settled ==
    /\ faults = NoFaults
    /\ \A i \in 1..Len(calls) : calls[i].result # "error"
    /\ pc \in {"enabling", "status", "done"} => (preconditionReady /\ preconditionErr = NIL)
    /\ store[svcA].present => FirstAvailableStatus(store[svcA].conds) = "True"

\* no object is marked for deletion and still there
NoDeletionPending == \A n \in Names : ~(store[n].present /\ store[n].deleting)

\* the disabled svcB is gone, the enabled svcA is there, the sync in flight has
\* made no delete, the conditions are Degraded False and Available True, and
\* a sync that has returned has written them and returned nil
Converged ==
    /\ ~store[svcB].present
    /\ store[svcA].present
    /\ ~HasCall("Delete")
    /\ operatorStatus = [APIServicesDegraded |-> [status |-> "False", reason |-> "", message |-> <<>>],
                         APIServicesAvailable |-> [status |-> "True", reason |-> "", message |-> <<>>]]
    /\ pc = "done" => (ret = NIL /\ calls[Len(calls)] = Call("UpdateStatus", <<>>, "ok"))

\* C20 as it is stated: with Managed syncs on fixed lists that keep coming, if
\* from some time on no call fails, the precondition returns (true, nil) and
\* the store reports the enabled registration Available True, and the lister
\* keeps catching up, then from some time on the disabled registration is
\* gone, the enabled one is there, and every sync returns nil, writes Degraded
\* False and Available True, and makes no delete.
C20_Converges == <>[]Settled => <>[]Converged

\* C20, amended: the same, if moreover from some time on no object is left
\* marked for deletion (a deletion in progress comes to its end).
C20_ConvergesOnceDeletionsEnd == <>[](Settled /\ NoDeletionPending) => <>[]Converged

C20_Witness ==
    /\ pc = "done"
    /\ Settled /\ Converged
    /\ cache[svcB] = CacheView(Absent)
    /\ CallNames(calls, "Get") = <<svcB>>
    /\ CallNames(calls, "ApplyAPIService") = <<svcA>>

====
